---- MODULE Spec2Model ----
(***************************************************************************)
(* Model of the message release handler of mailpit                         *)
(* (server/apiv1/api.go, ReleaseMessage) together with the collaborators   *)
(* it calls: the message store, net/mail, the header tools, the identifier *)
(* generator and the outbound SMTP transport.                              *)
(*                                                                         *)
(* A raw message is a record [hdrs, body, sep]: the header fields in the   *)
(* order of the byte stream, the body, and whether the blank line that     *)
(* separates headers from body is there.  A header field is a record       *)
(* [name, value] holding the name exactly as written (letter case kept).   *)
(***************************************************************************)
EXTENDS Integers, Sequences, FiniteSets, TLC

VARIABLES
    store,      \* the mailbox: sequence of [id, raw], oldest first
    config,     \* config.SMTPRelayConfig: [AllowedRecipientsRegexp, ReturnPath]
    inbox,      \* the HTTP request each handler goroutine was started with
    pc,         \* position of each handler goroutine inside ReleaseMessage
    msg,        \* local variable msg ([]byte) of each invocation
    m,          \* local variable m (*mail.Message) of each invocation
    data,       \* local variable data (releaseMessageRequestBody)
    from,       \* local variable from
    resp,       \* what the invocation wrote to its http.ResponseWriter
    transport,  \* the calls smtpd.Send has received, in order
    issued      \* the tokens shortuuid.New() has returned so far

vars == <<store, config, inbox, pc, msg, m, data, from, resp, transport, issued>>

(***************************************************************************)
(* Bounds                                                                  *)
(***************************************************************************)
MaxTo == 2          \* longest recipient list a request carries
MaxStore == 2       \* most messages in the mailbox
MaxHdrs == 4        \* most header fields of a generated message

Procs == {"p1", "p2"}

None == "none"      \* a setting of the configuration that is not set

(***************************************************************************)
(* Header names and net/mail                                               *)
(***************************************************************************)

\* textproto.CanonicalMIMEHeaderKey on the header names that occur
CanonicalMIMEHeaderKey(n) ==
    CASE n \in {"Bcc", "bcc", "BCC"}                  -> "Bcc"
      [] n \in {"Return-Path", "return-path"}         -> "Return-Path"
      [] n \in {"Message-Id", "Message-ID"}           -> "Message-Id"
      [] n \in {"Date", "date"}                       -> "Date"
      [] n \in {"From", "from"}                       -> "From"
      [] n \in {"Sender", "sender"}                   -> "Sender"
      [] OTHER                                        -> n

\* net/mail address-list parser on the address strings that occur:
\* the addresses (address-only form) in order, or err for a string that is
\* not an address list
ParseAddressList(s) ==
    CASE s = "alice@example.com"
            -> [err |-> FALSE, list |-> <<"alice@example.com">>]
      [] s = "Alice <alice@example.com>"
            -> [err |-> FALSE, list |-> <<"alice@example.com">>]
      [] s = "bob@example.com"
            -> [err |-> FALSE, list |-> <<"bob@example.com">>]
      [] s = "Bob <bob@example.com>"
            -> [err |-> FALSE, list |-> <<"bob@example.com">>]
      [] s = "Carol <carol@example.com>"
            -> [err |-> FALSE, list |-> <<"carol@example.com">>]
      [] s = "eve@attacker.test"
            -> [err |-> FALSE, list |-> <<"eve@attacker.test">>]
      [] s = "bob@example.com, eve@attacker.test"
            -> [err |-> FALSE, list |-> <<"bob@example.com", "eve@attacker.test">>]
      [] OTHER
            -> [err |-> TRUE, list |-> <<>>]

\* mail.ParseAddress: a single address, anything else is an error
ParseAddress(s) ==
    LET r == ParseAddressList(s)
    IN  IF ~r.err /\ Len(r.list) = 1
        THEN [err |-> FALSE, Address |-> r.list[1]]
        ELSE [err |-> TRUE, Address |-> ""]

\* mail.ReadMessage: the header block and the body, or err when the bytes
\* have no header/body separator
ReadMessage(raw) ==
    IF raw.sep
    THEN [err |-> FALSE, Header |-> raw.hdrs, Body |-> raw.body]
    ELSE [err |-> TRUE, Header |-> <<>>, Body |-> ""]

\* indexes of the fields of a header block whose name is key, in any case
FieldIndexes(hdrs, key) ==
    {i \in 1..Len(hdrs) :
        CanonicalMIMEHeaderKey(hdrs[i].name) = CanonicalMIMEHeaderKey(key)}

Min(S) == CHOOSE x \in S : \A y \in S : x <= y

\* mail.Header.Get: the value of the first field of that name, "" if none
HeaderGet(hdrs, key) ==
    LET idx == FieldIndexes(hdrs, key)
    IN  IF idx = {} THEN "" ELSE hdrs[Min(idx)].value

\* mail.Header.AddressList: ErrHeaderNotPresent for a missing header,
\* otherwise the parse of the first field of that name
AddressList(hdrs, key) ==
    LET hdr == HeaderGet(hdrs, key)
    IN  IF hdr = "" THEN [err |-> TRUE, list |-> <<>>] ELSE ParseAddressList(hdr)

\* regexp.MatchString of the configured allowlist pattern; the pattern that
\* is configured in this model is ^.*@example\.com$
MatchString(re, address) ==
    CASE re = "^.*@example\\.com$"
            -> address \in {"alice@example.com", "bob@example.com", "carol@example.com"}
      [] OTHER -> FALSE

(***************************************************************************)
(* Header tools (internal/tools)                                           *)
(***************************************************************************)

\* tools.RemoveMessageHeaders: delete every field whose name matches one of
\* the names, case-insensitively; everything else is left as it is
RemoveMessageHeaders(raw, names) ==
    LET canon == {CanonicalMIMEHeaderKey(n) : n \in names}
        keep(f) == CanonicalMIMEHeaderKey(f.name) \notin canon
    IN  IF ~raw.sep
        THEN [err |-> TRUE, msg |-> raw]
        ELSE [err |-> FALSE, msg |-> [raw EXCEPT !.hdrs = SelectSeq(raw.hdrs, keep)]]

\* tools.UpdateMessageHeader: replace the value of the first field of that
\* name and drop the later fields of that name; with no such field, append
\* a new field at the end of the header block
UpdateMessageHeader(raw, header, value) ==
    LET idx   == FieldIndexes(raw.hdrs, header)
        first == Min(idx)
        repl  == [i \in 1..Len(raw.hdrs) |->
                    IF i = first THEN [raw.hdrs[i] EXCEPT !.value = value]
                    ELSE IF i \in idx THEN [name |-> "", value |-> ""]
                    ELSE raw.hdrs[i]]
        live(f) == f.name # ""
    IN  IF ~raw.sep
        THEN [err |-> TRUE, msg |-> raw]
        ELSE IF idx = {}
        THEN [err |-> FALSE,
              msg |-> [raw EXCEPT !.hdrs = Append(raw.hdrs, [name |-> header, value |-> value])]]
        ELSE [err |-> FALSE, msg |-> [raw EXCEPT !.hdrs = SelectSeq(repl, live)]]

(***************************************************************************)
(* Message store (internal/storage)                                        *)
(***************************************************************************)

\* storage.GetMessageRaw: the raw bytes of the message with that database
\* id, or an error when there is none
GetMessageRaw(id) ==
    LET hit == {i \in 1..Len(store) : store[i].id = id}
    IN  IF hit = {} THEN [err |-> TRUE, raw |-> [hdrs |-> <<>>, body |-> "", sep |-> FALSE]]
        ELSE [err |-> FALSE, raw |-> store[CHOOSE i \in hit : TRUE].raw]

\* storage.LatestID: the id of the most recently stored message
LatestID ==
    IF Len(store) = 0 THEN [err |-> TRUE, id |-> ""]
    ELSE [err |-> FALSE, id |-> store[Len(store)].id]

(***************************************************************************)
(* Time and identifiers                                                    *)
(***************************************************************************)

\* the instants time.Now() may return
Times == {"now1", "now2"}

\* time.Time.Format(time.RFC1123Z)
FormatRFC1123Z(t) ==
    CASE t = "now1" -> "Fri, 06 Nov 2026 10:00:00 +0000"
      [] t = "now2" -> "Fri, 06 Nov 2026 10:00:01 +0000"

\* the tokens shortuuid.New() draws from
Tokens == {"tokA", "tokB", "tokC"}

\* the tokens inside the Message-Id fields of the mailbox that were built
\* by an earlier release
StoredTokens ==
    {t \in Tokens : \E i \in 1..Len(store) : \E j \in 1..Len(store[i].raw.hdrs) :
        store[i].raw.hdrs[j].value = "<" \o t \o "@mailpit>"}

\* shortuuid.New(): a universally unique identifier, so a token that was
\* never handed out before
ShortuuidNew == Tokens \ (issued \cup StoredTokens)

(***************************************************************************)
(* ReleaseMessage, one action per step of the handler                      *)
(***************************************************************************)

\* return after writing a response
Respond(p, code, kind, detail) ==
    /\ resp' = [resp EXCEPT ![p] = [code |-> code, kind |-> kind, detail |-> detail]]
    /\ pc' = [pc EXCEPT ![p] = "done"]

\* fall through to the next statement
Goto(p, label) ==
    /\ pc' = [pc EXCEPT ![p] = label]
    /\ UNCHANGED resp

\* msg, err := storage.GetMessageRaw(id); fourOFour on error
Load(p) ==
    /\ pc[p] = "load"
    /\ LET r == GetMessageRaw(inbox[p].id)
       IN  IF r.err
           THEN Respond(p, 404, "NotFound", "") /\ UNCHANGED msg
           ELSE Goto(p, "decode") /\ msg' = [msg EXCEPT ![p] = r.raw]
    /\ UNCHANGED <<store, config, inbox, m, data, from, transport, issued>>

\* decoder.Decode(&data)
Decode(p) ==
    /\ pc[p] = "decode"
    /\ IF ~inbox[p].body.ok
       THEN Respond(p, 400, "BadRequest", "") /\ UNCHANGED data
       ELSE Goto(p, "validate") /\ data' = [data EXCEPT ![p] = [To |-> inbox[p].body.To]]
    /\ UNCHANGED <<store, config, inbox, msg, m, from, transport, issued>>

\* RecipientFails without the allowlist check
RecipientFailsSyntaxOnly(to) ==
    ParseAddress(to).err

\* one round of the loop over data.To fails
RecipientFails(to) ==
    LET address == ParseAddress(to)
    IN  \/ address.err
        \/ /\ config.AllowedRecipientsRegexp # None
           /\ ~MatchString(config.AllowedRecipientsRegexp, address.Address)

\* ValidateRecipients that checks the syntax of the whole list before it
\* checks any entry against the allowlist
ValidateRecipientsSyntaxFirst(p) ==
    /\ pc[p] = "validate"
    /\ LET To      == data[p].To
           invalid == {i \in 1..Len(To) : ParseAddress(To[i]).err}
           bad     == {i \in 1..Len(To) : RecipientFails(To[i])}
       IN  IF invalid # {}
           THEN Respond(p, 400, "InvalidAddress", To[Min(invalid)])
           ELSE IF bad # {}
           THEN Respond(p, 400, "RecipientNotAllowed", To[Min(bad)])
           ELSE IF Len(To) = 0
           THEN Respond(p, 400, "EmptyRecipientList", "")
           ELSE Goto(p, "read")
    /\ UNCHANGED <<store, config, inbox, msg, m, data, from, transport, issued>>

\* the loop over data.To, then the check of len(data.To)
ValidateRecipients(p) ==
    /\ pc[p] = "validate"
    /\ LET To  == data[p].To
           bad == {i \in 1..Len(To) : RecipientFails(To[i])}
       IN  IF bad # {}
           THEN LET to == To[Min(bad)]
                IN  IF ParseAddress(to).err
                    THEN Respond(p, 400, "InvalidAddress", to)
                    ELSE Respond(p, 400, "RecipientNotAllowed", to)
           ELSE IF Len(To) = 0
           THEN Respond(p, 400, "EmptyRecipientList", "")
           ELSE Goto(p, "read")
    /\ UNCHANGED <<store, config, inbox, msg, m, data, from, transport, issued>>

\* m, err := mail.ReadMessage(reader)
ParseMessage(p) ==
    /\ pc[p] = "read"
    /\ LET r == ReadMessage(msg[p])
       IN  IF r.err
           THEN Respond(p, 400, "MalformedMessage", "") /\ UNCHANGED m
           ELSE Goto(p, "sender") /\ m' = [m EXCEPT ![p] = r]
    /\ UNCHANGED <<store, config, inbox, msg, data, from, transport, issued>>

\* SenderOf that never looks at the Sender header
SenderOfFromOnly(froms, senders) ==
    froms.list[1]

\* the value of from after the From and Sender headers were read
SenderOf(froms, senders) ==
    IF ~senders.err THEN senders.list[1] ELSE froms.list[1]

\* froms, err := m.Header.AddressList("From") ... from = senders[0].Address
ResolveSender(p) ==
    /\ pc[p] = "sender"
    /\ LET froms   == AddressList(m[p].Header, "From")
           senders == AddressList(m[p].Header, "Sender")
       IN  IF froms.err
           THEN Respond(p, 400, "NoSenderFound", "") /\ UNCHANGED from
           ELSE IF Len(froms.list) = 0
           THEN Respond(p, 400, "NoSenderFound", "No From header found") /\ UNCHANGED from
           ELSE Goto(p, "bcc") /\ from' = [from EXCEPT ![p] = SenderOf(froms, senders)]
    /\ UNCHANGED <<store, config, inbox, msg, m, data, transport, issued>>

\* StripBcc that keeps the rewritten bytes in one buffer of the package,
\* which every invocation reads as its msg
StripBccSharedBuffer(p) ==
    /\ pc[p] = "bcc"
    /\ LET r == RemoveMessageHeaders(msg[p], {"Bcc"})
       IN  IF r.err
           THEN Respond(p, 400, "MalformedMessage", "") /\ UNCHANGED msg
           ELSE Goto(p, "returnpath") /\ msg' = [q \in Procs |-> r.msg]
    /\ UNCHANGED <<store, config, inbox, m, data, from, transport, issued>>

\* StripBcc that leaves the message as it is
StripBccSkipped(p) ==
    /\ pc[p] = "bcc"
    /\ pc' = [pc EXCEPT ![p] = "returnpath"]
    /\ UNCHANGED <<store, config, inbox, msg, m, data, from, resp, transport, issued>>

\* the header names removed before the message is relayed
StrippedHeaders == {"Bcc"}

\* msg, err = tools.RemoveMessageHeaders(msg, []string{"Bcc"})
StripBcc(p) ==
    /\ pc[p] = "bcc"
    /\ LET r == RemoveMessageHeaders(msg[p], StrippedHeaders)
       IN  IF r.err
           THEN Respond(p, 400, "MalformedMessage", "") /\ UNCHANGED msg
           ELSE Goto(p, "returnpath") /\ msg' = [msg EXCEPT ![p] = r.msg]
    /\ UNCHANGED <<store, config, inbox, m, data, from, transport, issued>>

\* NeedsReturnPath that rewrites without looking at the header
NeedsReturnPathAlways(hdrs, returnPath) ==
    TRUE

\* m.Header.Get("Return-Path") != "<"+config.SMTPRelayConfig.ReturnPath+">"
NeedsReturnPath(hdrs, returnPath) ==
    HeaderGet(hdrs, "Return-Path") # "<" \o returnPath \o ">"

\* WithReturnPath that puts the new field behind the other fields
WithReturnPathAppended(raw, returnPath) ==
    [raw EXCEPT !.hdrs =
        Append(raw.hdrs, [name |-> "Return-Path", value |-> "<" \o returnPath \o ">"])]

\* append([]byte("Return-Path: <"+ReturnPath+">\r\n"), msg...)
WithReturnPath(raw, returnPath) ==
    [raw EXCEPT !.hdrs =
        <<[name |-> "Return-Path", value |-> "<" \o returnPath \o ">"]>> \o raw.hdrs]

\* set the Return-Path and SMTP mfrom
SetReturnPath(p) ==
    /\ pc[p] = "returnpath"
    /\ IF config.ReturnPath # ""
       THEN IF NeedsReturnPath(m[p].Header, config.ReturnPath)
            THEN LET r == RemoveMessageHeaders(msg[p], {"Return-Path"})
                 IN  IF r.err
                     THEN Respond(p, 400, "MalformedMessage", "") /\ UNCHANGED <<msg, from>>
                     ELSE /\ Goto(p, "date")
                          /\ msg' = [msg EXCEPT ![p] = WithReturnPath(r.msg, config.ReturnPath)]
                          /\ from' = [from EXCEPT ![p] = config.ReturnPath]
            ELSE /\ Goto(p, "date")
                 /\ from' = [from EXCEPT ![p] = config.ReturnPath]
                 /\ UNCHANGED msg
       ELSE Goto(p, "date") /\ UNCHANGED <<msg, from>>
    /\ UNCHANGED <<store, config, inbox, m, data, transport, issued>>

\* UpdateDate that writes the relay time under the name Resent-Date
UpdateDateResent(p) ==
    /\ pc[p] = "date"
    /\ \E now \in Times :
         LET r == UpdateMessageHeader(msg[p], "Resent-Date", FormatRFC1123Z(now))
         IN  IF r.err
             THEN Respond(p, 400, "MalformedMessage", "") /\ UNCHANGED msg
             ELSE Goto(p, "msgid") /\ msg' = [msg EXCEPT ![p] = r.msg]
    /\ UNCHANGED <<store, config, inbox, m, data, from, transport, issued>>

\* msg, err = tools.UpdateMessageHeader(msg, "Date", time.Now().Format(time.RFC1123Z))
UpdateDate(p) ==
    /\ pc[p] = "date"
    /\ \E now \in Times :
         LET r == UpdateMessageHeader(msg[p], "Date", FormatRFC1123Z(now))
         IN  IF r.err
             THEN Respond(p, 400, "MalformedMessage", "") /\ UNCHANGED msg
             ELSE Goto(p, "msgid") /\ msg' = [msg EXCEPT ![p] = r.msg]
    /\ UNCHANGED <<store, config, inbox, m, data, from, transport, issued>>

\* MessageIdOf that builds the identifier from a fixed token
MessageIdOfFixed(token) == "<" \o "tokA" \o "@mailpit" \o ">"

\* "<"+uid+">" with uid := shortuuid.New() + "@mailpit"
MessageIdOf(token) == "<" \o token \o "@mailpit" \o ">"

\* msg, err = tools.UpdateMessageHeader(msg, "Message-Id", "<"+uid+">")
UpdateMessageId(p) ==
    /\ pc[p] = "msgid"
    /\ \E token \in ShortuuidNew :
         /\ issued' = issued \cup {token}
         /\ LET r == UpdateMessageHeader(msg[p], "Message-Id", MessageIdOf(token))
            IN  IF r.err
                THEN Respond(p, 400, "MalformedMessage", "") /\ UNCHANGED msg
                ELSE Goto(p, "send") /\ msg' = [msg EXCEPT ![p] = r.msg]
    /\ UNCHANGED <<store, config, inbox, m, data, from, transport>>

\* the recipient list handed to smtpd.Send
SendTo(d) == d.To

\* smtpd.Send: the transport records the call and delivers or reports an error
SmtpdSend(p, f, to, raw, ok) ==
    Append(transport, [by |-> p, from |-> f, to |-> to, msg |-> raw, ok |-> ok])

\* Send that also files the relayed copy in the mailbox
SendAndStore(p) ==
    /\ pc[p] = "send"
    /\ \E ok \in BOOLEAN :
         /\ transport' = Append(transport, [by |-> p, from |-> from[p], to |-> data[p].To,
                                            msg |-> msg[p], ok |-> ok])
         /\ IF ok
            THEN Respond(p, 200, "ok", "")
            ELSE Respond(p, 400, "DeliveryFailed", "SMTP error")
    /\ store' = Append(store, [id |-> "relayed", raw |-> msg[p]])
    /\ UNCHANGED <<config, inbox, msg, m, data, from, issued>>

\* Send that tries a second time when the transport reports an error
SendWithRetry(p) ==
    /\ pc[p] = "send"
    /\ \E ok \in BOOLEAN :
         /\ transport' =
                IF ok
                THEN Append(transport, [by |-> p, from |-> from[p], to |-> data[p].To,
                                        msg |-> msg[p], ok |-> TRUE])
                ELSE transport \o
                     <<[by |-> p, from |-> from[p], to |-> data[p].To, msg |-> msg[p], ok |-> FALSE],
                       [by |-> p, from |-> from[p], to |-> data[p].To, msg |-> msg[p], ok |-> FALSE]>>
         /\ IF ok
            THEN Respond(p, 200, "ok", "")
            ELSE Respond(p, 400, "DeliveryFailed", "SMTP error")
    /\ UNCHANGED <<store, config, inbox, msg, m, data, from, issued>>

\* if err := smtpd.Send(from, data.To, msg); err != nil { httpError } else "ok"
Send(p) ==
    /\ pc[p] = "send"
    /\ \E ok \in BOOLEAN :
         /\ transport' = SmtpdSend(p, from[p], SendTo(data[p]), msg[p], ok)
         /\ IF ok
            THEN Respond(p, 200, "ok", "")
            ELSE Respond(p, 400, "DeliveryFailed", "SMTP error")
    /\ UNCHANGED <<store, config, inbox, msg, m, data, from, issued>>

Next ==
    \E p \in Procs :
        \/ Load(p)
        \/ Decode(p)
        \/ ValidateRecipients(p)
        \/ ParseMessage(p)
        \/ ResolveSender(p)
        \/ StripBcc(p)
        \/ SetReturnPath(p)
        \/ UpdateDate(p)
        \/ UpdateMessageId(p)
        \/ Send(p)

(***************************************************************************)
(* Initial states                                                          *)
(***************************************************************************)

Field(n, v) == [name |-> n, value |-> v]
Raw(hdrs) == [hdrs |-> hdrs, body |-> "Hello Bob", sep |-> TRUE]

\* the address configured as override return-path, when one is configured
Override == "bounce@relay.test"

\* the header fields the generated messages are made of
HdrFields == {
    Field("From", "Alice <alice@example.com>"),
    Field("Sender", "Carol <carol@example.com>"),
    Field("Sender", "undisclosed sender"),
    Field("Bcc", "secret@example.com"),
    Field("bcc", "hidden@example.com"),
    Field("Return-Path", "<bounce@relay.test>"),
    Field("Return-Path", "<alice@example.com>"),
    Field("Date", "Mon, 01 Jan 2024 00:00:00 +0000"),
    Field("Message-ID", "<orig@example.com>"),
    Field("Subject", "hello") }

SeqsUpTo(S, n) == UNION {[1..k -> S] : k \in 0..n}

\* every message of at most MaxHdrs fields
GeneratedMessages == {Raw(h) : h \in SeqsUpTo(HdrFields, MaxHdrs)}

MsgPlain ==
    Raw(<<Field("From", "alice@example.com"), Field("Subject", "hello"),
          Field("Message-ID", "<orig@example.com>")>>)
MsgRelayed ==
    Raw(<<Field("Return-Path", "<bounce@relay.test>"),
          Field("From", "Alice <alice@example.com>"), Field("Bcc", "secret@example.com"),
          Field("Message-Id", "<tokA@mailpit>"), Field("Message-ID", "<orig@example.com>")>>)
MsgNoFrom ==
    Raw(<<Field("Subject", "hello"), Field("Date", "Mon, 01 Jan 2024 00:00:00 +0000")>>)
MsgTruncated ==
    [hdrs |-> <<Field("From", "alice@example.com")>>, body |-> "", sep |-> FALSE]

MsgBusy ==
    Raw(<<Field("Date", "Mon, 01 Jan 2024 00:00:00 +0000"),
          Field("From", "Alice <alice@example.com>"),
          Field("Sender", "Carol <carol@example.com>"), Field("bcc", "hidden@example.com"),
          Field("Return-Path", "<alice@example.com>"),
          Field("date", "Mon, 01 Jan 2024 00:00:00 +0000"), Field("Subject", "hello")>>)

\* the messages the mailboxes of the request scenarios are filled from
Catalogue == {MsgPlain, MsgRelayed, MsgNoFrom, MsgTruncated}

\* the database ids, in the order the store hands them out
StoreIds == [i \in 1..(MaxStore + 1) |->
                CASE i = 1 -> "id1" [] i = 2 -> "id2" [] i = 3 -> "id3" [] OTHER -> "id4"]

\* a mailbox holding the given raw messages, oldest first
Mailbox(raws) == [i \in 1..Len(raws) |-> [id |-> StoreIds[i], raw |-> raws[i]]]

Configs ==
    [AllowedRecipientsRegexp : {None, "^.*@example\\.com$"}, ReturnPath : {"", Override}]

\* the strings a caller puts into the recipient list
ToStrings == {"bob@example.com", "Bob <bob@example.com>", "eve@attacker.test", "bob(at)example.com"}

NoRequest == [live |-> FALSE, id |-> "", body |-> [ok |-> FALSE, To |-> <<>>]]
Request(id, ok, To) == [live |-> TRUE, id |-> id, body |-> [ok |-> ok, To |-> To]]

\* the requests of a caller: a database id, the sentinel or an unknown id,
\* with a body that is a recipient list or does not decode
Requests ==
    {Request(id, TRUE, To) : id \in {"id1", "id2", "latest", "nosuchid"},
                              To \in SeqsUpTo(ToStrings, MaxTo)}
    \cup {Request(id, FALSE, <<>>) : id \in {"id1", "nosuchid"}}

\* the state of the handler goroutines before they run
InitLocals ==
    /\ pc = [p \in Procs |-> IF inbox[p].live THEN "load" ELSE "idle"]
    /\ msg = [p \in Procs |-> [hdrs |-> <<>>, body |-> "", sep |-> FALSE]]
    /\ m = [p \in Procs |-> [err |-> TRUE, Header |-> <<>>, Body |-> ""]]
    /\ data = [p \in Procs |-> [To |-> <<>>]]
    /\ from = [p \in Procs |-> ""]
    /\ resp = [p \in Procs |-> [code |-> 0, kind |-> "", detail |-> ""]]
    /\ transport = <<>>
    /\ issued = {}

\* one request of any shape against a mailbox of catalogue messages
Init ==
    /\ store \in {Mailbox(r) : r \in SeqsUpTo(Catalogue, MaxStore)}
    /\ config \in Configs
    /\ \E r \in Requests : inbox = [p \in Procs |-> IF p = "p1" THEN r ELSE NoRequest]
    /\ InitLocals

\* one well-formed request for a message of any header block
InitRewrite ==
    /\ store \in {Mailbox(<<r>>) : r \in GeneratedMessages}
    /\ config \in {c \in Configs : c.AllowedRecipientsRegexp = None}
    /\ inbox = [p \in Procs |-> IF p = "p1"
                                 THEN Request("id1", TRUE, <<"bob@example.com">>)
                                 ELSE NoRequest]
    /\ InitLocals

\* two requests served at the same time
InitConc ==
    /\ store \in {Mailbox(<<MsgRelayed, MsgPlain>>), Mailbox(<<MsgBusy, MsgNoFrom>>)}
    /\ config \in Configs
    /\ inbox \in [Procs -> {Request(id, TRUE, To) :
                                id \in {"id1", "id2"},
                                To \in {<<"bob@example.com">>,
                                        <<"Bob <bob@example.com>", "eve@attacker.test">>}}]
    /\ InitLocals

Spec == Init /\ [][Next]_vars
SpecRewrite == InitRewrite /\ [][Next]_vars
SpecConc == InitConc /\ [][Next]_vars

TypeOK ==
    /\ pc \in [Procs -> {"idle", "load", "decode", "validate", "read", "sender", "bcc",
                         "returnpath", "date", "msgid", "send", "done"}]
    /\ issued \subseteq Tokens
    /\ Len(transport) <= Cardinality(Procs)

(***************************************************************************)
(* Vocabulary of the properties                                            *)
(***************************************************************************)

Done(p) == pc[p] = "done"

\* the calls of smtpd.Send made by invocation p
CallsBy(p) == {i \in 1..Len(transport) : transport[i].by = p}

\* the lookup of the requested identifier, and the stored bytes it yields
Lookup(p) == GetMessageRaw(inbox[p].id)
Stored(p) == Lookup(p).raw

\* the recipient list of the request
ToOf(p) == inbox[p].body.To

\* every step before the transport call succeeds on the request of p
EarlierStepsSucceed(p) ==
    /\ ~Lookup(p).err
    /\ inbox[p].body.ok
    /\ \A i \in 1..Len(ToOf(p)) :
          /\ ~ParseAddress(ToOf(p)[i]).err
          /\ \/ config.AllowedRecipientsRegexp = None
             \/ MatchString(config.AllowedRecipientsRegexp, ParseAddress(ToOf(p)[i]).Address)
    /\ Len(ToOf(p)) > 0
    /\ Stored(p).sep
    /\ ~AddressList(Stored(p).hdrs, "From").err

\* the recipient at position i parses and is not matched by the allowlist
Disallowed(p, i) ==
    /\ config.AllowedRecipientsRegexp # None
    /\ ~ParseAddress(ToOf(p)[i]).err
    /\ ~MatchString(config.AllowedRecipientsRegexp, ParseAddress(ToOf(p)[i]).Address)

Invalid(p, i) == ParseAddress(ToOf(p)[i]).err

HasField(hdrs, key) == FieldIndexes(hdrs, key) # {}

\* the fields of a header block whose names are not among the given ones
Without(hdrs, keys) ==
    LET canon == {CanonicalMIMEHeaderKey(k) : k \in keys}
        other(f) == CanonicalMIMEHeaderKey(f.name) \notin canon
    IN  SelectSeq(hdrs, other)

\* the first address of a header, "" when the header yields no address
FirstAddress(hdrs, key) ==
    LET r == AddressList(hdrs, key)
    IN  IF r.err \/ Len(r.list) = 0 THEN "" ELSE r.list[1]

(***************************************************************************)
(* C1                                                                      *)
(***************************************************************************)

\* C1: an invocation calls the transport at most once at any time; when it
\* has returned it has called it exactly once if every step before the
\* transport call succeeds on its request, and not at all otherwise; a
\* transport error is answered with DeliveryFailed after that single call.
C1_SingleAttempt ==
    \A p \in Procs :
        /\ Cardinality(CallsBy(p)) <= 1
        /\ ~Done(p) => CallsBy(p) = {}
        /\ Done(p) =>
              /\ Cardinality(CallsBy(p)) = IF EarlierStepsSucceed(p) THEN 1 ELSE 0
              /\ EarlierStepsSucceed(p) <=> resp[p].kind \in {"ok", "DeliveryFailed"}
              /\ resp[p].kind = "DeliveryFailed" =>
                    \A i \in CallsBy(p) : ~transport[i].ok

\* an invocation whose single transport call reported an error has returned
C1_Witness ==
    \E p \in Procs :
        /\ Done(p)
        /\ resp[p].kind = "DeliveryFailed"
        /\ Cardinality(CallsBy(p)) = 1

(***************************************************************************)
(* C2                                                                      *)
(***************************************************************************)

\* C2 as stated: with an allowlist pattern configured, a request whose list
\* holds a non-matching address at any position fails with
\* RecipientNotAllowed and the transport records no call.
C2_Original ==
    \A p \in Procs :
        (Done(p) /\ \E i \in 1..Len(ToOf(p)) : Disallowed(p, i))
            => /\ resp[p].kind = "RecipientNotAllowed"
               /\ CallsBy(p) = {}

\* the first position of the list that fails a check, 0 if none does
FirstBad(p) ==
    LET bad == {i \in 1..Len(ToOf(p)) : Invalid(p, i) \/ Disallowed(p, i)}
    IN  IF bad = {} THEN 0 ELSE Min(bad)

\* C2 amended: such a request always fails and the transport records no
\* call; the failure is RecipientNotAllowed (naming that entry) when the
\* message is found and the first entry that fails a check is a
\* non-matching one, InvalidAddress when an unparsable entry comes first,
\* and NotFound when the identifier is unknown.
C2_Amended ==
    \A p \in Procs :
        (Done(p) /\ \E i \in 1..Len(ToOf(p)) : Disallowed(p, i))
            => /\ CallsBy(p) = {}
               /\ resp[p].code # 200
               /\ resp[p].kind =
                     IF Lookup(p).err THEN "NotFound"
                     ELSE IF Invalid(p, FirstBad(p)) THEN "InvalidAddress"
                     ELSE "RecipientNotAllowed"
               /\ ~Lookup(p).err => resp[p].detail = ToOf(p)[FirstBad(p)]

\* a request whose first entry matches the pattern and whose second does
\* not was refused with RecipientNotAllowed
C2_Witness ==
    \E p \in Procs :
        /\ Done(p)
        /\ Len(ToOf(p)) = 2
        /\ ~Invalid(p, 1) /\ ~Disallowed(p, 1)
        /\ Disallowed(p, 2)
        /\ resp[p].kind = "RecipientNotAllowed"
        /\ CallsBy(p) = {}

(***************************************************************************)
(* C3                                                                      *)
(***************************************************************************)

\* C3 as stated: the envelope sender of every transport call is the override
\* when one is configured, else the first address of the Sender header when
\* a Sender header is present, else the first address of From.
C3_Original ==
    \A i \in 1..Len(transport) :
        LET hdrs == Stored(transport[i].by).hdrs
        IN  transport[i].from =
                IF config.ReturnPath # "" THEN config.ReturnPath
                ELSE IF HasField(hdrs, "Sender") THEN FirstAddress(hdrs, "Sender")
                ELSE FirstAddress(hdrs, "From")

\* C3 amended: the envelope sender of every transport call is the override
\* when one is configured, else the first address of the Sender header when
\* a Sender header is present and parses as an address list, else (no
\* Sender header, or one that does not parse) the first address of From.
C3_Amended ==
    \A i \in 1..Len(transport) :
        LET hdrs == Stored(transport[i].by).hdrs
        IN  transport[i].from =
                IF config.ReturnPath # "" THEN config.ReturnPath
                ELSE IF HasField(hdrs, "Sender") /\ ~AddressList(hdrs, "Sender").err
                THEN FirstAddress(hdrs, "Sender")
                ELSE FirstAddress(hdrs, "From")

\* a message whose Sender header does not parse was handed to the transport
\* with no override configured, under the first address of its From header
C3_Witness ==
    \E i \in 1..Len(transport) :
        LET hdrs == Stored(transport[i].by).hdrs
        IN  /\ config.ReturnPath = ""
            /\ HasField(hdrs, "Sender")
            /\ AddressList(hdrs, "Sender").err
            /\ transport[i].from = "alice@example.com"

(***************************************************************************)
(* C4                                                                      *)
(***************************************************************************)

\* the recipient list of p is non-empty and passes every check
RecipientsValid(p) ==
    /\ inbox[p].body.ok
    /\ Len(ToOf(p)) > 0
    /\ \A i \in 1..Len(ToOf(p)) : ~Invalid(p, i) /\ ~Disallowed(p, i)

\* C4: a stored message without a From header, released with valid
\* recipients while an override return-path is configured, does not fail
\* with NoSenderFound and is handed to the transport with the override as
\* envelope sender.
C4_Claim ==
    \A p \in Procs :
        ( /\ Done(p)
          /\ ~Lookup(p).err
          /\ RecipientsValid(p)
          /\ Stored(p).sep
          /\ ~HasField(Stored(p).hdrs, "From")
          /\ config.ReturnPath # "" )
        => /\ resp[p].kind # "NoSenderFound"
           /\ \E i \in CallsBy(p) : transport[i].from = config.ReturnPath

(***************************************************************************)
(* C5                                                                      *)
(***************************************************************************)

\* C5: the recipient list of every transport call has one entry per entry of
\* the caller's list, in the caller's order, and each entry is the
\* address-only form of the caller's string.
C5_Claim ==
    \A i \in 1..Len(transport) :
        LET To == ToOf(transport[i].by)
        IN  /\ Len(transport[i].to) = Len(To)
            /\ \A k \in 1..Len(To) : transport[i].to[k] = ParseAddress(To[k]).Address

(***************************************************************************)
(* C6                                                                      *)
(***************************************************************************)

\* C6: a release of the identifier "latest" on a non-empty mailbox is not
\* answered with NotFound, and the bytes it loads are those of the most
\* recently stored message.
C6_Claim ==
    \A p \in Procs :
        (inbox[p].live /\ inbox[p].id = "latest" /\ Len(store) > 0 /\ pc[p] # "load")
            => /\ resp[p].kind # "NotFound"
               /\ pc[p] = "decode" => msg[p] = GetMessageRaw(LatestID.id).raw

(***************************************************************************)
(* C7                                                                      *)
(***************************************************************************)

\* the value a Return-Path header has when it agrees with the override
OverrideValue == "<" \o config.ReturnPath \o ">"

\* an override is configured and the first Return-Path of the stored
\* message of p is absent or differs from it
ReturnPathDiffers(p) ==
    /\ config.ReturnPath # ""
    /\ HeaderGet(Stored(p).hdrs, "Return-Path") # OverrideValue

\* the header names the release of the message of p rewrites
RewrittenNames(p) ==
    {"Bcc", "Date", "Message-Id"} \cup
    (IF ReturnPathDiffers(p) THEN {"Return-Path"} ELSE {})

\* C7: when the stored message has a Bcc field, the message of every
\* transport call has no Bcc field in any letter case, its fields other
\* than Bcc and the rewritten Return-Path, Date and Message-Id are those of
\* the stored message with the same values in the same order, and its body
\* is the stored body.
C7_BccStripped ==
    \A i \in 1..Len(transport) :
        LET p    == transport[i].by
            sent == transport[i].msg
        IN  HasField(Stored(p).hdrs, "Bcc") =>
              /\ ~HasField(sent.hdrs, "Bcc")
              /\ Without(sent.hdrs, RewrittenNames(p)) = Without(Stored(p).hdrs, RewrittenNames(p))
              /\ sent.body = Stored(p).body
              /\ sent.sep

\* a message with a Bcc field and two or more fields the release does not
\* rewrite was handed to the transport
C7_Witness ==
    \E i \in 1..Len(transport) :
        LET p == transport[i].by
        IN  /\ HasField(Stored(p).hdrs, "Bcc")
            /\ Len(Without(Stored(p).hdrs, RewrittenNames(p))) >= 2

(***************************************************************************)
(* C8                                                                      *)
(***************************************************************************)

\* C8: the message of every transport call has exactly one Message-Id
\* field; its value is <token@mailpit> for a token the generator issued,
\* differs from every Message-Id of the stored message and from the
\* Message-Id of every other transport call.
C8_FreshMessageId ==
    \A i \in 1..Len(transport) :
        LET sent == transport[i].msg
            orig == Stored(transport[i].by)
            id   == HeaderGet(sent.hdrs, "Message-Id")
        IN  /\ Cardinality(FieldIndexes(sent.hdrs, "Message-Id")) = 1
            /\ \E token \in issued : id = "<" \o token \o "@mailpit>"
            /\ \A j \in FieldIndexes(orig.hdrs, "Message-Id") : orig.hdrs[j].value # id
            /\ \A k \in 1..Len(transport) :
                  k # i => HeaderGet(transport[k].msg.hdrs, "Message-Id") # id

\* two invocations have released the same stored message, which carries
\* two Message-Id fields, one of them built by an earlier release
C8_Witness ==
    /\ Len(transport) = 2
    /\ transport[1].by # transport[2].by
    /\ inbox[transport[1].by].id = inbox[transport[2].by].id
    /\ Cardinality(FieldIndexes(Stored(transport[1].by).hdrs, "Message-Id")) = 2
    /\ StoredTokens # {}

(***************************************************************************)
(* C9                                                                      *)
(***************************************************************************)

\* C9: when an override is configured and the Return-Path of the stored
\* message equals <override>, the message of every transport call holds,
\* apart from the Date and Message-Id fields, exactly the fields of the
\* stored message other than Bcc, Date and Message-Id, in the same order:
\* each Return-Path field is kept as it was, where it was.
C9_ReturnPathKept ==
    \A i \in 1..Len(transport) :
        LET orig == Stored(transport[i].by)
            sent == transport[i].msg
        IN  (config.ReturnPath # "" /\ HeaderGet(orig.hdrs, "Return-Path") = OverrideValue)
              => Without(sent.hdrs, {"Date", "Message-Id"})
                     = Without(orig.hdrs, {"Bcc", "Date", "Message-Id"})

\* a message whose Return-Path equals <override> and is not its first field
\* was handed to the transport
C9_Witness ==
    \E i \in 1..Len(transport) :
        LET orig == Stored(transport[i].by)
        IN  /\ config.ReturnPath # ""
            /\ HeaderGet(orig.hdrs, "Return-Path") = OverrideValue
            /\ CanonicalMIMEHeaderKey(orig.hdrs[1].name) # "Return-Path"

(***************************************************************************)
(* C10                                                                     *)
(***************************************************************************)

\* the message of a transport call has exactly one Return-Path field and
\* its value is <override>
OneOverrideReturnPath(sent) ==
    /\ Cardinality(FieldIndexes(sent.hdrs, "Return-Path")) = 1
    /\ HeaderGet(sent.hdrs, "Return-Path") = OverrideValue

\* C10 as stated: when an override is configured and the Return-Path of the
\* stored message is absent or differs from <override>, the message of
\* every transport call has exactly one Return-Path field, of value
\* <override>, placed at the end of the header block: no field follows it
\* but the Date and Message-Id fields the later steps append.
C10_Original ==
    \A i \in 1..Len(transport) :
        LET sent == transport[i].msg
        IN  ReturnPathDiffers(transport[i].by) =>
              /\ OneOverrideReturnPath(sent)
              /\ \A j \in 1..Len(sent.hdrs) :
                    j > Min(FieldIndexes(sent.hdrs, "Return-Path")) =>
                        CanonicalMIMEHeaderKey(sent.hdrs[j].name) \in {"Date", "Message-Id"}

\* C10 amended: in that case the message of every transport call has
\* exactly one Return-Path field, of value <override>, and it is the first
\* field of the message, in front of every other header field; the fields
\* behind it that the release does not rewrite are those of the stored
\* message in their order.
C10_Amended ==
    \A i \in 1..Len(transport) :
        LET sent == transport[i].msg
            orig == Stored(transport[i].by)
        IN  ReturnPathDiffers(transport[i].by) =>
              /\ OneOverrideReturnPath(sent)
              /\ sent.hdrs[1] = [name |-> "Return-Path", value |-> OverrideValue]
              /\ Without(Tail(sent.hdrs), {"Date", "Message-Id"})
                    = Without(orig.hdrs, {"Bcc", "Return-Path", "Date", "Message-Id"})

\* a message with two Return-Path fields, the first of which differs from
\* <override>, was handed to the transport
C10_Witness ==
    \E i \in 1..Len(transport) :
        /\ ReturnPathDiffers(transport[i].by)
        /\ Cardinality(FieldIndexes(Stored(transport[i].by).hdrs, "Return-Path")) = 2

(***************************************************************************)
(* C11                                                                     *)
(***************************************************************************)

\* the invocation handed its message to the transport
Dispatched(p) == resp[p].kind \in {"ok", "DeliveryFailed"}

\* two header blocks have the same fields at the same positions, but for
\* the values of the Date and Message-Id fields
SameButDateAndId(a, b) ==
    /\ Len(a) = Len(b)
    /\ \A k \in 1..Len(a) :
          /\ a[k].name = b[k].name
          /\ \/ a[k].value = b[k].value
             \/ CanonicalMIMEHeaderKey(a[k].name) \in {"Date", "Message-Id"}

\* C11: two releases of the same stored message with the same recipients
\* under the same policy end alike: when one is handed to the transport so
\* is the other (each succeeds when the transport accepts it), and any two
\* of their transport calls have the same envelope sender, the same
\* recipient list, the same body and the same header fields at the same
\* positions but for the values of Date and Message-Id, and are not the
\* same message.
C11_TwiceAlike ==
    /\ \A p, q \in Procs :
          (inbox[p].live /\ inbox[p] = inbox[q] /\ Done(p) /\ Done(q))
              => /\ Dispatched(p) <=> Dispatched(q)
                 /\ ~Dispatched(p) => resp[p] = resp[q]
    /\ \A i, j \in 1..Len(transport) :
          (i # j /\ inbox[transport[i].by] = inbox[transport[j].by])
              => /\ transport[i].from = transport[j].from
                 /\ transport[i].to = transport[j].to
                 /\ transport[i].msg.body = transport[j].msg.body
                 /\ SameButDateAndId(transport[i].msg.hdrs, transport[j].msg.hdrs)
                 /\ transport[i].msg # transport[j].msg

\* the same request was released twice with success, at different times
C11_Witness ==
    /\ Len(transport) = 2
    /\ transport[1].by # transport[2].by
    /\ inbox[transport[1].by] = inbox[transport[2].by]
    /\ \A p \in Procs : resp[p].kind = "ok"
    /\ HeaderGet(transport[1].msg.hdrs, "Date") # HeaderGet(transport[2].msg.hdrs, "Date")

(***************************************************************************)
(* C12                                                                     *)
(***************************************************************************)

\* C12: no step of a release, successful or failed, changes the mailbox:
\* every stored message keeps its bytes and no entry is added or removed.
C12_StoreUntouched == [][store' = store]_vars

\* a release has handed a rewritten copy to the transport while the mailbox
\* still holds the message as it was stored
C12_Witness ==
    \E p \in Procs :
        /\ Done(p)
        /\ \E i \in CallsBy(p) : transport[i].msg # Stored(p)
        /\ Stored(p) \in Catalogue

(***************************************************************************)
(* C13                                                                     *)
(***************************************************************************)

\* the failure of the earliest failing state on the request of p, in the
\* order Load, request decoding, ValidateRecipients (entries in list order,
\* syntax before allowlist for each entry, then the non-empty check),
\* message parsing, ResolveSender; "" when none of them fails
EarliestFailure(p) ==
    IF Lookup(p).err THEN "NotFound"
    ELSE IF ~inbox[p].body.ok THEN "BadRequest"
    ELSE IF FirstBad(p) # 0 /\ Invalid(p, FirstBad(p)) THEN "InvalidAddress"
    ELSE IF FirstBad(p) # 0 THEN "RecipientNotAllowed"
    ELSE IF Len(ToOf(p)) = 0 THEN "EmptyRecipientList"
    ELSE IF ~Stored(p).sep THEN "MalformedMessage"
    ELSE IF AddressList(Stored(p).hdrs, "From").err THEN "NoSenderFound"
    ELSE ""

\* C13: an invocation that has returned reports the failure of the earliest
\* failing state in that order, naming the first bad recipient of the list
\* when that state is ValidateRecipients; it reports the outcome of the
\* transport call only when no earlier state fails.
C13_EarliestFailure ==
    \A p \in Procs :
        Done(p) =>
            /\ EarliestFailure(p) # "" => resp[p].kind = EarliestFailure(p)
            /\ EarliestFailure(p) = "" => resp[p].kind \in {"ok", "DeliveryFailed"}
            /\ EarliestFailure(p) \in {"InvalidAddress", "RecipientNotAllowed"}
                  => resp[p].detail = ToOf(p)[FirstBad(p)]

\* a request with a non-matching first and an unparsable second recipient,
\* for a message without a From header, was refused with
\* RecipientNotAllowed naming the first recipient
C13_Witness ==
    \E p \in Procs :
        /\ Done(p)
        /\ ~Lookup(p).err
        /\ Len(ToOf(p)) = 2
        /\ Disallowed(p, 1)
        /\ Invalid(p, 2)
        /\ ~HasField(Stored(p).hdrs, "From")
        /\ resp[p].kind = "RecipientNotAllowed"
        /\ resp[p].detail = ToOf(p)[1]

(***************************************************************************)
(* C14                                                                     *)
(***************************************************************************)

\* the envelope sender an invocation that runs alone derives for the request of p
AloneFrom(p) ==
    IF config.ReturnPath # "" THEN config.ReturnPath
    ELSE SenderOf(AddressList(Stored(p).hdrs, "From"), AddressList(Stored(p).hdrs, "Sender"))

\* the message an invocation that runs alone builds for the request of p
\* when it reads the time now and draws the token
AloneMsg(p, now, token) ==
    LET stripped == RemoveMessageHeaders(Stored(p), StrippedHeaders).msg
        pathed   == IF config.ReturnPath # ""
                       /\ NeedsReturnPath(Stored(p).hdrs, config.ReturnPath)
                    THEN WithReturnPath(RemoveMessageHeaders(stripped, {"Return-Path"}).msg,
                                        config.ReturnPath)
                    ELSE stripped
        dated    == UpdateMessageHeader(pathed, "Date", FormatRFC1123Z(now)).msg
    IN  UpdateMessageHeader(dated, "Message-Id", MessageIdOf(token)).msg

\* the outcome and the transport call of p are those of a run alone, up to
\* the time read and the token drawn
AsIfAlone(p) ==
    /\ Done(p) =>
          /\ EarliestFailure(p) # "" => resp[p].kind = EarliestFailure(p) /\ CallsBy(p) = {}
          /\ EarliestFailure(p) = "" => Dispatched(p) /\ Cardinality(CallsBy(p)) = 1
    /\ pc[p] = "send" =>
          \E now \in Times, token \in Tokens : msg[p] = AloneMsg(p, now, token)
    /\ \A i \in CallsBy(p) :
          /\ transport[i].from = AloneFrom(p)
          /\ transport[i].to = SendTo([To |-> ToOf(p)])
          /\ \E now \in Times, token \in Tokens : transport[i].msg = AloneMsg(p, now, token)

\* C14: in every interleaving of the invocations, each invocation ends with
\* the outcome, and hands the transport the envelope sender, recipient list
\* and message, of a run alone on its own request, up to the values of Date
\* and Message-Id; and no step writes the relay configuration.
C14_Independent ==
    /\ [](\A p \in Procs : AsIfAlone(p))
    /\ [][config' = config]_vars

\* one invocation has handed its message to the transport while another,
\* releasing a different stored message, holds its rewritten buffer and is
\* about to do so
C14_Witness ==
    \E p, q \in Procs :
        /\ p # q
        /\ inbox[p].id # inbox[q].id
        /\ CallsBy(p) # {}
        /\ pc[q] = "send"

====
